---- MODULE Spec2Model ----
(***************************************************************************)
(* Model of literature_search_paper_aligned.py: the relevance classifier   *)
(* (is_relevant), the record parser (_parse_paper), the paginated search   *)
(* driver (search), the aggregator (generate_prisma_stats) and the         *)
(* exporters called from main().                                           *)
(*                                                                         *)
(* Python strings are TLA+ strings; substring tests (`k in text`) are done *)
(* character by character with SubSeq.  A Python value that may be None is *)
(* a sequence of length at most one: <<>> is None and <<v>> is v.          *)
(***************************************************************************)
EXTENDS Integers, Sequences, FiniteSets, TLC

\* ------------------------------------------------------------------------
\* Taxonomy store (class attributes of RestrictedPaperSearcher)
\* ------------------------------------------------------------------------
NDT_METHODS_CORE ==
  << "ultrasonic pulse velocity", "upv",
     "impact echo", "impact-echo",
     "phased array ultrasonic", "paut", "tofd",
     "ground penetrating radar", "gpr",
     "eddy current testing",
     "magnetic flux leakage",
     "half-cell potential", "half cell potential",
     "resistivity measurement", "wenner probe",
     "sonreb", "rebound hammer", "schmidt hammer",
     "pull-out test", "pullout test", "capo test", "lok test",
     "flat-jack", "flatjack",
     "resistance drilling", "resistograph",
     "magnetic particle testing", "dye penetrant",
     "visual grading",
     "infrared thermography",
     "non-destructive testing", "nondestructive testing",
     "non-destructive evaluation", "nondestructive evaluation" >>

STRUCTURAL_MATERIALS ==
  << "reinforced concrete", "rc structure", "rc beam", "rc column",
     "concrete bridge", "concrete building", "concrete structure",
     "prestressed concrete", "post-tensioned concrete",
     "structural steel", "steel structure", "steel bridge",
     "steel beam", "steel column", "steel connection",
     "timber structure", "timber beam", "timber building",
     "glulam", "laminated timber", "wood structure",
     "masonry structure", "masonry wall", "masonry building",
     "brick masonry", "stone masonry", "historic masonry",
     "heritage building", "unreinforced masonry" >>

TASK_GEOMETRY ==
  << "geometry verification", "geometric verification",
     "dimension measurement", "cross-section measurement",
     "reinforcement layout", "reinforcement mapping", "rebar detection",
     "cover depth", "concrete cover", "section geometry",
     "connection detail", "structural geometry",
     "thickness measurement", "section loss measurement" >>

TASK_STRENGTH ==
  << "strength estimation", "strength assessment", "strength evaluation",
     "compressive strength", "tensile strength", "flexural strength",
     "characteristic strength", "characteristic value",
     "design value", "material strength", "load capacity",
     "residual strength", "in-situ strength",
     "strength prediction", "strength determination" >>

TASK_DETERIORATION ==
  << "deterioration assessment", "deterioration evaluation",
     "corrosion detection", "corrosion assessment", "corrosion rate",
     "decay assessment", "decay detection", "wood decay",
     "chemical attack", "sulfate attack", "alkali-silica reaction",
     "residual capacity", "degradation assessment",
     "carbonation depth", "chloride penetration", "chloride ingress",
     "service life", "durability assessment" >>

TASK_DEFECTS ==
  << "defect identification", "defect detection", "flaw detection",
     "crack detection", "crack mapping", "crack characterization",
     "void detection", "void identification", "honeycombing",
     "delamination detection", "delamination assessment",
     "hidden damage", "internal damage", "damage detection",
     "fire damage", "impact damage", "structural damage" >>

TASK_MOISTURE ==
  << "moisture content", "moisture measurement", "moisture assessment",
     "moisture condition", "moisture distribution",
     "moisture meter", "resistance meter",
     "moisture-related", "moisture damage", "water ingress",
     "drying", "wetting", "hygroscopic" >>

\* mutant: the combined list leaves out the moisture set
ALL_ASSESSMENT_TASKS_NoMoisture ==
  TASK_GEOMETRY \o TASK_STRENGTH \o TASK_DETERIORATION \o TASK_DEFECTS

ALL_ASSESSMENT_TASKS ==
  TASK_GEOMETRY \o TASK_STRENGTH \o TASK_DETERIORATION \o TASK_DEFECTS
    \o TASK_MOISTURE

CIRCULAR_STRICT ==
  << "circular construction", "circular economy building",
     "structural reuse", "component reuse", "element reuse",
     "building reuse", "material reuse",
     "deconstruction", "selective demolition",
     "design for disassembly",
     "reuse assessment", "reusability assessment" >>

EXCLUSION_STRICT ==
  << "cancer", "tumor", "tumour", "patient", "clinical trial",
     "biomedical", "medical imaging", "cell culture", "pharmaceutical",
     "surgery", "hospital", "diagnosis patient", "therapy",
     "food quality", "fruit quality", "vegetable", "meat quality",
     "agricultural", "crop", "grain", "fish quality", "poultry",
     "aerospace", "aircraft", "wind turbine blade", "wind energy",
     "additive manufacturing", "semiconductor", "electronics",
     "battery", "lithium", "nuclear reactor", "pipeline weld",
     "seismic exploration", "oil reservoir", "petroleum",
     "mining exploration", "geological", "rock formation",
     "automotive", "vehicle", "car body", "engine component",
     "pavement", "asphalt", "road surface", "runway" >>

\* ------------------------------------------------------------------------
\* Python built-ins used by the program
\* ------------------------------------------------------------------------
None == << >>

Some(v) == << v >>

IsNone(o) == o = << >>

Min(a, b) == IF a <= b THEN a ELSE b

\* str.lower() on one character
LowerChar(c) ==
  CASE c = "A" -> "a" [] c = "B" -> "b" [] c = "C" -> "c" [] c = "D" -> "d"
    [] c = "E" -> "e" [] c = "F" -> "f" [] c = "G" -> "g" [] c = "H" -> "h"
    [] c = "I" -> "i" [] c = "J" -> "j" [] c = "K" -> "k" [] c = "L" -> "l"
    [] c = "M" -> "m" [] c = "N" -> "n" [] c = "O" -> "o" [] c = "P" -> "p"
    [] c = "Q" -> "q" [] c = "R" -> "r" [] c = "S" -> "s" [] c = "T" -> "t"
    [] c = "U" -> "u" [] c = "V" -> "v" [] c = "W" -> "w" [] c = "X" -> "x"
    [] c = "Y" -> "y" [] c = "Z" -> "z" [] OTHER -> c

RECURSIVE Lower(_)
Lower(s) ==
  IF Len(s) = 0 THEN ""
  ELSE LowerChar(SubSeq(s, 1, 1)) \o Lower(SubSeq(s, 2, Len(s)))

\* `k in t` for strings
Contains(t, k) ==
  \E i \in 1..(Len(t) - Len(k) + 1) : SubSeq(t, i, i + Len(k) - 1) = k

\* k.lower() for every keyword k of a class-level list (the lists are fixed,
\* so each is lowered once)
LowerAll(keywords) == [ i \in 1..Len(keywords) |-> Lower(keywords[i]) ]

\* any(k.lower() in text for k in keywords), keywords already lowered
AnyIn(lowered, text) ==
  \E i \in 1..Len(lowered) : Contains(text, lowered[i])

\* sep.join(words)
RECURSIVE Join(_, _)
Join(words, sep) ==
  IF Len(words) = 0 THEN ""
  ELSE IF Len(words) = 1 THEN words[1]
  ELSE words[1] \o sep \o Join(Tail(words), sep)

\* s[:n]
Prefix(s, n) == SubSeq(s, 1, Min(n, Len(s)))

\* max() of a non-empty sequence of integers
SeqMax(seq) == CHOOSE m \in { seq[i] : i \in 1..Len(seq) } :
                 \A j \in 1..Len(seq) : seq[j] <= m

\* dict.get(key, 0) on a dict modelled as a function
GetCount(d, key) == IF key \in DOMAIN d THEN d[key] ELSE 0

\* m.lower() for m in each keyword list, as is_relevant evaluates them
NdtLower == LowerAll(NDT_METHODS_CORE)

MaterialLower == LowerAll(STRUCTURAL_MATERIALS)

GeometryLower == LowerAll(TASK_GEOMETRY)

StrengthLower == LowerAll(TASK_STRENGTH)

DeteriorationLower == LowerAll(TASK_DETERIORATION)

DefectsLower == LowerAll(TASK_DEFECTS)

MoistureLower == LowerAll(TASK_MOISTURE)

AllTasksLower == LowerAll(ALL_ASSESSMENT_TASKS)

CircularLower == LowerAll(CIRCULAR_STRICT)

ExclusionLower == LowerAll(EXCLUSION_STRICT)

\* ------------------------------------------------------------------------
\* State
\* ------------------------------------------------------------------------
VARIABLES
  pc,               \* position of the control thread
  raw,              \* the raw API record handed to _parse_paper
  parsed,           \* what _parse_paper returned: None or Some(paper)
  verdict,          \* what is_relevant returned: None before the call
  exclusion_stats,  \* self.exclusion_stats: exclusion term -> count
  term,             \* search(): index of the query term being searched
  pages,            \* search(): pages
  cursor,           \* search(): params["cursor"]
  in_page,          \* search(): records of the current page already handled
  response,         \* search(): how the last request ended
  all_results,      \* search(): the dict all_results, in insertion order
  excluded,         \* self.excluded
  results,          \* self.results
  prisma,           \* the dict generate_prisma_stats returned last
  files,            \* the files main() has written: name -> content
  calls,            \* history: calls of search() made on this instance
  run_excluded      \* history: what the current call appended to self.excluded

paperVars == << raw, parsed, verdict >>

callVars == << calls, run_excluded >>

searchVars == << term, pages, cursor, in_page, response, all_results,
                 excluded, results, prisma, files, callVars >>

vars == << pc, raw, parsed, verdict, exclusion_stats, term, pages, cursor,
           in_page, response, all_results, excluded, results, prisma, files,
           calls, run_excluded >>

\* ------------------------------------------------------------------------
\* RestrictedPaperSearcher._parse_paper
\* ------------------------------------------------------------------------
\* An inverted index is a Python dict in insertion order: a sequence of
\* entries [word, indices].  Structural failures raise inside the try block.

\* max(max(indices) for indices in inv_idx.values()); max([]) raises ValueError
InvIdxRaises(inv_idx) ==
  \E e \in 1..Len(inv_idx) : Len(inv_idx[e].indices) = 0

MaxIdx(inv_idx) ==
  SeqMax([e \in 1..Len(inv_idx) |-> SeqMax(inv_idx[e].indices)])

\* mutant: a position keeps the first word written to it
PlaceWords_FirstWins(inv_idx) ==
  [ p \in 1..(MaxIdx(inv_idx) + 1) |->
      LET listing == { e \in 1..Len(inv_idx) :
                         \E k \in 1..Len(inv_idx[e].indices) :
                           inv_idx[e].indices[k] = p - 1 }
      IN IF listing = {} THEN ""
         ELSE inv_idx[CHOOSE e \in listing : \A f \in listing : e <= f].word ]

\* words = [""] * (max_idx + 1); then words[idx] = word in dict order, so
\* the last entry that lists a position is the one that stays
PlaceWords(inv_idx) ==
  [ p \in 1..(MaxIdx(inv_idx) + 1) |->
      LET listing == { e \in 1..Len(inv_idx) :
                         \E k \in 1..Len(inv_idx[e].indices) :
                           inv_idx[e].indices[k] = p - 1 }
      IN IF listing = {} THEN ""
         ELSE inv_idx[CHOOSE e \in listing : \A f \in listing : f <= e].word ]

RebuildAbstract(inv_idx) == Join(PlaceWords(inv_idx), " ")

\* for authorship in paper.get("authorships", []): author = authorship.get(
\* "author", {}); author.get("display_name") -- a null author raises
AuthorsRaise(authorships) ==
  \/ IsNone(authorships)
  \/ \E i \in 1..Len(authorships[1]) : IsNone(authorships[1][i])

AuthorNames(authorships) ==
  LET list == authorships[1]
      named == SelectSeq(list, LAMBDA a : a[1] # "")
  IN [ i \in 1..Len(named) |-> named[i][1] ]

ParseRaises(paper) ==
  \/ AuthorsRaise(paper.authorships)
  \/ /\ ~IsNone(paper.abstract_inverted_index)
     /\ Len(paper.abstract_inverted_index[1]) > 0
     /\ InvIdxRaises(paper.abstract_inverted_index[1])
  \/ IsNone(paper.open_access)

\* mutant: a failing part is replaced by its default, the record is kept
parse_paper_KeepsBroken(paper) ==
  Some(
    [ title          |-> paper.title,
      authors        |-> IF AuthorsRaise(paper.authorships) THEN ""
                         ELSE LET authors == AuthorNames(paper.authorships)
                              IN Join(SubSeq(authors, 1, Min(5, Len(authors))), "; "),
      year           |-> paper.publication_year,
      abstract       |-> IF /\ ~IsNone(paper.abstract_inverted_index)
                            /\ Len(paper.abstract_inverted_index[1]) > 0
                            /\ ~InvIdxRaises(paper.abstract_inverted_index[1])
                         THEN RebuildAbstract(paper.abstract_inverted_index[1])
                         ELSE "",
      cited_by_count |-> paper.cited_by_count,
      open_access    |-> IF IsNone(paper.open_access) THEN FALSE
                         ELSE paper.open_access[1],
      openalex_id    |-> paper.id ])

parse_paper(paper) ==
  IF ParseRaises(paper) THEN None
  ELSE Some(
    [ title          |-> paper.title,
      authors        |-> LET authors == AuthorNames(paper.authorships)
                         IN Join(SubSeq(authors, 1, Min(5, Len(authors))), "; "),
      year           |-> paper.publication_year,
      abstract       |-> IF ~IsNone(paper.abstract_inverted_index)
                            /\ Len(paper.abstract_inverted_index[1]) > 0
                         THEN RebuildAbstract(paper.abstract_inverted_index[1])
                         ELSE "",
      cited_by_count |-> paper.cited_by_count,
      open_access    |-> paper.open_access[1],
      openalex_id    |-> paper.id ])

\* ------------------------------------------------------------------------
\* Inputs: raw records as the works API returns them
\* ------------------------------------------------------------------------
MaxPos == 2

\* one entry of an abstract_inverted_index
Entry(w, ix) == [ word |-> w, indices |-> ix ]

RawRecord(id, title, inv_idx, year, cites) ==
  [ id |-> id, title |-> title,
    authorships |-> Some(<< Some("Ana Ruiz"), Some("Bo Li") >>),
    abstract_inverted_index |-> inv_idx,
    publication_year |-> year, cited_by_count |-> cites,
    open_access |-> Some(TRUE) ]

Titles ==
  { None,
    Some("Ultrasonic pulse velocity testing of reinforced concrete for corrosion assessment"),
    Some("Ultrasonic testing of aircraft composite panels"),
    Some("GPR Survey of Reinforced Concrete: Cover Depth and Compressive Strength"),
    Some("Impact echo on asphalt pavement of a concrete bridge: crack detection"),
    Some("Rebound hammer tests of a timber beam for structural reuse"),
    Some("Rebound hammer tests of a masonry wall"),
    Some("Compressive strength of reinforced concrete"),
    Some("Schmidt hammer survey"),
    Some("Infrared thermography of a masonry wall: moisture"),
    Some("Fire damage in a steel beam of an aircraft hangar"),
    Some("Microphone arrays: UPV of RC beams for residual capacity") }

InvertedIndexes ==
  { None,
    Some(<< >>),
    Some(<< Entry("ultrasonic", << 0, 3 >>), Entry("testing", << 1 >>) >>),
    Some(<< Entry("content", << 0 >>), Entry("of", << 1 >>),
            Entry("Glulam", << 2 >>) >>),
    Some(<< Entry("Design", << 1 >>), Entry("Value", << 2 >>),
            Entry("gpr", << 0 >>) >>),
    Some(<< Entry("crack", << 0 >>), Entry("detection", << 1 >>),
            Entry("steel", << 4, 2, 2 >>), Entry("beam", << 3, 5 >>) >>),
    Some(<< Entry("patient", << 1 >>) >>),
    Some(<< Entry("deconstruction", << 0 >>), Entry("lithium", << 0 >>) >>),
    Some(<< Entry("sonreb", << >>), Entry("drying", << 0 >>) >>) }

\* the position lists over 0..MaxPos, each in increasing order
SortedSeq(S) ==
  CHOOSE f \in [ 1..Cardinality(S) -> S ] :
    \A i \in 1..Cardinality(S) : \A j \in 1..Cardinality(S) :
      i < j => f[i] < f[j]

IndexLists == { SortedSeq(S) : S \in SUBSET (0..MaxPos) }

\* every index over two words with those lists, in either dict order
GeneratedIndexes ==
  LET one(w) == { << Entry(w, ix) >> : ix \in IndexLists }
      two(v, w) == { << Entry(v, ix), Entry(w, jx) >> :
                       ix \in IndexLists, jx \in IndexLists }
  IN one("moisture") \cup one("content")
       \cup two("moisture", "content") \cup two("content", "moisture")

PaperInputs ==
  { RawRecord("W1", t, a, 2020, 3) : t \in Titles, a \in InvertedIndexes }
    \cup { RawRecord("W2", Some("GPR on a masonry wall"),
                     Some(g), 2021, 0) : g \in GeneratedIndexes }
    \cup { [ RawRecord("W3", Some("Schmidt hammer survey"), None, 2019, 1)
               EXCEPT !.authorships = None ],
           [ RawRecord("W3", Some("Schmidt hammer survey"), None, 2019, 1)
               EXCEPT !.authorships = Some(<< Some("Ana Ruiz"), None >>) ],
           [ RawRecord("W3", Some("Schmidt hammer survey"),
                       Some(<< Entry("gpr", << 0 >>) >>), 2019, 1)
               EXCEPT !.open_access = None ] }

\* counters a searcher can hold from earlier calls
StatsInputs ==
  { << >>,
    [ t \in { "aircraft", "pavement" } |-> IF t = "pavement" THEN 2 ELSE 1 ] }

\* The records the works API returns during a search.  W1 comes back in two
\* versions; W2 and W4 have a null title; W5 has a null authorships list.
RecA  == RawRecord("W1",
           Some("GPR Survey of Reinforced Concrete: Cover Depth and Compressive Strength"),
           None, 2020, 3)

RecA2 == RawRecord("W1",
           Some("Rebound hammer tests of a timber beam for structural reuse"),
           None, 2021, 0)

RecB  == RawRecord("W2", None,
           Some(<< Entry("GPR", << 0 >>), Entry("masonry", << 1 >>),
                   Entry("wall", << 2 >>), Entry("moisture", << 3 >>),
                   Entry("content", << 4 >>) >>), 2020, 7)

RecC  == RawRecord("W3", Some("Ultrasonic testing of aircraft composite panels"),
           None, 2022, 5)

RecD  == RawRecord("W4", None, Some(<< Entry("editorial", << 0 >>) >>), 2019, 0)

RecE  == [ RawRecord("W5", Some("Schmidt hammer survey"), None, 2019, 1)
             EXCEPT !.authorships = None ]

RecF  == RawRecord("W6",
           Some("Ultrasonic pulse velocity testing of reinforced concrete for corrosion assessment"),
           Some(<< Entry("crack", << 0 >>), Entry("detection", << 1 >>) >>),
           2022, 1)

\* W7 lists a word of its abstract with an empty position list
RecG  == RawRecord("W7", Some("Ultrasonic testing of cracks in concrete"),
           Some(<< Entry("crack", << >>) >>), 2021, 2)

SearchCorpus == { RecA, RecA2, RecB, RecC, RecD, RecE, RecF, RecG }

\* ------------------------------------------------------------------------
\* RestrictedPaperSearcher.is_relevant
\* ------------------------------------------------------------------------
\* title = (paper.get("title") or "").lower(); abstract likewise;
\* text = f"{title} {abstract}"
PaperText(paper) ==
  Lower(IF IsNone(paper.title) THEN "" ELSE paper.title[1])
    \o " " \o Lower(paper.abstract)

\* mutant: the loop keeps the last matching exclusion term, not the first
FirstExclusion_LastHit(text) ==
  LET hits == { i \in 1..Len(EXCLUSION_STRICT) :
                  Contains(text, ExclusionLower[i]) }
  IN IF hits = {} THEN None
     ELSE Some(EXCLUSION_STRICT[CHOOSE i \in hits : \A j \in hits : j <= i])

\* the first exclusion term, in list order, that is a substring of the text
FirstExclusion(text) ==
  LET hits == { i \in 1..Len(EXCLUSION_STRICT) :
                  Contains(text, ExclusionLower[i]) }
  IN IF hits = {} THEN None
     ELSE Some(EXCLUSION_STRICT[CHOOSE i \in hits : \A j \in hits : i <= j])

\* mutant: the five tests chained with elif, so only the first match is kept
TasksFound_Elif(text) ==
  IF AnyIn(GeometryLower, text) THEN << "geometry" >>
  ELSE IF AnyIn(StrengthLower, text) THEN << "strength" >>
  ELSE IF AnyIn(DeteriorationLower, text) THEN << "deterioration" >>
  ELSE IF AnyIn(DefectsLower, text) THEN << "defects" >>
  ELSE IF AnyIn(MoistureLower, text) THEN << "moisture" >>
  ELSE << >>

\* tasks_found, in the order of the five if-statements
TasksFound(text) ==
  (IF AnyIn(GeometryLower, text) THEN << "geometry" >> ELSE << >>)
    \o (IF AnyIn(StrengthLower, text) THEN << "strength" >> ELSE << >>)
    \o (IF AnyIn(DeteriorationLower, text) THEN << "deterioration" >> ELSE << >>)
    \o (IF AnyIn(DefectsLower, text) THEN << "defects" >> ELSE << >>)
    \o (IF AnyIn(MoistureLower, text) THEN << "moisture" >> ELSE << >>)

\* f"Tasks: {', '.join(tasks_found) if tasks_found else 'circular'}"
TasksReason(text) ==
  LET tasks_found == TasksFound(text)
  IN "Tasks: " \o (IF Len(tasks_found) > 0
                   THEN Join(tasks_found, ", ") ELSE "circular")

\* mutant: the material gate is tested before the NDT-method gate
Decision_MaterialFirst(text) ==
  LET excl == FirstExclusion(text)
  IN IF ~IsNone(excl)
       THEN [ included |-> FALSE, reason |-> "Excluded: " \o excl[1],
              exclude |-> excl ]
     ELSE IF ~AnyIn(MaterialLower, text)
       THEN [ included |-> FALSE, reason |-> "No structural material",
              exclude |-> None ]
     ELSE IF ~AnyIn(NdtLower, text)
       THEN [ included |-> FALSE, reason |-> "No core NDT method",
              exclude |-> None ]
     ELSE IF ~(AnyIn(AllTasksLower, text) \/ AnyIn(CircularLower, text))
       THEN [ included |-> FALSE,
              reason |-> "No assessment task or circular context",
              exclude |-> None ]
     ELSE [ included |-> TRUE, reason |-> TasksReason(text),
            exclude |-> None ]

\* The gates of is_relevant in their order: [included, reason, exclude],
\* exclude being the exclusion term that matched (None when none did)
Decision(text) ==
  LET excl == FirstExclusion(text)
  IN IF ~IsNone(excl)
       THEN [ included |-> FALSE, reason |-> "Excluded: " \o excl[1],
              exclude |-> excl ]
     ELSE IF ~AnyIn(NdtLower, text)
       THEN [ included |-> FALSE, reason |-> "No core NDT method",
              exclude |-> None ]
     ELSE IF ~AnyIn(MaterialLower, text)
       THEN [ included |-> FALSE, reason |-> "No structural material",
              exclude |-> None ]
     ELSE IF ~(AnyIn(AllTasksLower, text) \/ AnyIn(CircularLower, text))
       THEN [ included |-> FALSE,
              reason |-> "No assessment task or circular context",
              exclude |-> None ]
     ELSE [ included |-> TRUE, reason |-> TasksReason(text),
            exclude |-> None ]

\* self.exclusion_stats[exclude] = self.exclusion_stats.get(exclude, 0) + 1
CountExclusion(stats, exclude) ==
  [ t \in DOMAIN stats \cup { exclude } |->
      IF t = exclude THEN GetCount(stats, t) + 1 ELSE stats[t] ]

\* Decision on the papers of the search corpus, evaluated once: the same
\* value as Decision(PaperText(paper)), kept so that a search does not scan
\* a text again each time the API returns the record
KnownDecisions ==
  [ paper \in { parse_paper(r)[1] :
                  r \in { q \in SearchCorpus : ~IsNone(parse_paper(q)) } } |->
      Decision(PaperText(paper)) ]

DecisionFor(paper) ==
  IF paper \in DOMAIN KnownDecisions THEN KnownDecisions[paper]
  ELSE Decision(PaperText(paper))

\* The call's result and its effect on self.exclusion_stats:
\* [included, reason, stats]
is_relevant(paper, stats) ==
  LET d == DecisionFor(paper)
  IN [ included |-> d.included,
       reason   |-> d.reason,
       stats    |-> IF IsNone(d.exclude) THEN stats
                    ELSE CountExclusion(stats, d.exclude[1]) ]

\* ------------------------------------------------------------------------
\* One record through the parser and the classifier
\* ------------------------------------------------------------------------
InitPaper ==
  /\ pc = "parse"
  /\ raw \in { Some(r) : r \in PaperInputs }
  /\ parsed = None
  /\ verdict = None
  /\ exclusion_stats \in StatsInputs
  /\ term = 1 /\ pages = 0 /\ cursor = "*" /\ in_page = 0
  /\ response = "none"
  /\ all_results = << >> /\ excluded = << >> /\ results = << >>
  /\ prisma = None /\ files = << >>
  /\ calls = 1 /\ run_excluded = << >>

\* paper_data = self._parse_paper(paper); if not paper_data: continue
ParsePaper ==
  /\ pc = "parse"
  /\ LET paper_data == parse_paper(raw[1])
     IN /\ parsed' = paper_data
        /\ pc' = IF IsNone(paper_data) THEN "dropped" ELSE "classify"
  /\ UNCHANGED << raw, verdict, exclusion_stats, searchVars >>

\* is_relevant, reason = self.is_relevant(paper_data)
IsRelevant ==
  /\ pc = "classify"
  /\ LET r == is_relevant(parsed[1], exclusion_stats)
     IN /\ verdict' = Some([ included |-> r.included, reason |-> r.reason ])
        /\ exclusion_stats' = r.stats
  /\ pc' = "checked"
  /\ UNCHANGED << raw, parsed, searchVars >>

NextPaper == ParsePaper \/ IsRelevant

SpecPaper == InitPaper /\ [][NextPaper]_vars

\* ------------------------------------------------------------------------
\* RestrictedPaperSearcher.search and main()
\* ------------------------------------------------------------------------
\* the query terms searched (the source lists 66)
NumTerms == 2

\* records on one page (the source asks for 100 per page)
MaxPageLen == 2

\* main(): searcher.search(..., max_pages_per_term=3)
max_pages_per_term == 3

\* continuation tokens the API hands out in meta.next_cursor
Cursors == { "c1", "c2" }

\* mutant: a record whose id was already stored is not recognised
Keys_NoneSeen(d) == { }

\* a dict in insertion order: a sequence of [key, value]
Keys(d) == { d[i].key : i \in 1..Len(d) }

Values(d) == [ i \in 1..Len(d) |-> d[i].value ]

\* d[k] = v
DictPut(d, k, v) ==
  IF k \in Keys(d)
  THEN [ i \in 1..Len(d) |->
           IF d[i].key = k THEN [ key |-> k, value |-> v ] ELSE d[i] ]
  ELSE Append(d, [ key |-> k, value |-> v ])

Init ==
  /\ pc = "request"
  /\ raw = None /\ parsed = None /\ verdict = None
  /\ exclusion_stats = << >>
  /\ term = 1 /\ pages = 0 /\ cursor = "*" /\ in_page = 0
  /\ response = "none"
  /\ all_results = << >> /\ excluded = << >> /\ results = << >>
  /\ prisma = None /\ files = << >>
  /\ calls = 1 /\ run_excluded = << >>

\* the while loop of the current term is left (break, or pages reached the
\* cap): the for loop takes the next term with a fresh params dict
NextTerm ==
  /\ term' = term + 1
  /\ pages' = 0
  /\ cursor' = "*"
  /\ in_page' = 0
  /\ pc' = IF term + 1 > NumTerms THEN "collect" ELSE "request"

\* mutant: a request error ends the whole search, not only the term
RequestError_AbortsSearch ==
  /\ pc = "request"
  /\ response' = "error"
  /\ term' = NumTerms + 1 /\ pages' = 0 /\ cursor' = "*" /\ in_page' = 0
  /\ pc' = "collect"
  /\ UNCHANGED << paperVars, exclusion_stats, all_results, excluded, results,
                  prisma, files, callVars >>

\* requests.get / raise_for_status raise a RequestException: print, break
RequestError ==
  /\ pc = "request"
  /\ response' = "error"
  /\ NextTerm
  /\ UNCHANGED << paperVars, exclusion_stats, all_results, excluded, results,
                  prisma, files, callVars >>

\* results = data.get("results", []); if not results: break
RequestEmpty ==
  /\ pc = "request"
  /\ response' = "empty"
  /\ NextTerm
  /\ UNCHANGED << paperVars, exclusion_stats, all_results, excluded, results,
                  prisma, files, callVars >>

\* a response with a non-empty results list: the for loop over it starts.
\* The records of the page are drawn one by one as the loop reaches them
\* (ProcessRecord), at most MaxPageLen of them, and EndPage closes the page.
RequestPage ==
  /\ pc = "request"
  /\ response' = "page"
  /\ pc' = "page"
  /\ in_page' = 0
  /\ UNCHANGED << paperVars, exclusion_stats, term, pages, cursor,
                  all_results, excluded, results, prisma, files, callVars >>

\* one iteration of `for paper in results` on the record r
ProcessRecord(r) ==
  /\ pc = "page"
  /\ in_page < MaxPageLen
  /\ raw' = Some(r)
  /\ in_page' = in_page + 1
  /\ IF r.id \in Keys(all_results)
       THEN \* if paper_id in all_results: continue
            /\ parsed' = None /\ verdict' = None /\ pc' = "page"
            /\ UNCHANGED << exclusion_stats, all_results, excluded,
                            run_excluded >>
     ELSE LET paper_data == parse_paper(r)
          IN /\ parsed' = paper_data
             /\ IF IsNone(paper_data)
                  THEN \* if not paper_data: continue
                       /\ verdict' = None /\ pc' = "page"
                       /\ UNCHANGED << exclusion_stats, all_results, excluded,
                                       run_excluded >>
                ELSE LET rel == is_relevant(paper_data[1], exclusion_stats)
                     IN /\ verdict' = Some([ included |-> rel.included,
                                             reason |-> rel.reason ])
                        /\ exclusion_stats' = rel.stats
                        /\ IF rel.included
                             THEN /\ all_results' =
                                       DictPut(all_results, r.id,
                                         ("assessment_tasks" :> rel.reason)
                                           @@ paper_data[1])
                                  /\ pc' = "page"
                                  /\ UNCHANGED << excluded, run_excluded >>
                           ELSE IF IsNone(paper_data[1].title)
                             THEN \* paper_data.get("title", "")[:60] on None:
                                  \* TypeError, which no handler catches
                                  /\ pc' = "raised"
                                  /\ UNCHANGED << all_results, excluded, run_excluded >>
                           ELSE /\ excluded' =
                                     Append(excluded,
                                       [ title |-> Prefix(paper_data[1].title[1], 60),
                                         reason |-> rel.reason ])
                                /\ pc' = "page"
                                /\ run_excluded' =
                                     Append(run_excluded,
                                       [ title |-> Prefix(paper_data[1].title[1], 60),
                                         reason |-> rel.reason ])
                                /\ UNCHANGED all_results
  /\ UNCHANGED << term, pages, cursor, response, results, prisma, files, calls >>

\* mutant: the while loop goes on as long as a cursor is returned
EndPage_NoCap(next_cursor) ==
  /\ pc = "page"
  /\ in_page >= 1
  /\ IF IsNone(next_cursor)
       THEN NextTerm
     ELSE /\ cursor' = next_cursor[1]
          /\ pages' = pages + 1
          /\ in_page' = 0
          /\ pc' = "request"
          /\ UNCHANGED term
  /\ UNCHANGED << paperVars, exclusion_stats, response, all_results,
                  excluded, results, prisma, files, callVars >>

\* after the for loop: next_cursor = data.get("meta", {}).get("next_cursor")
EndPage(next_cursor) ==
  /\ pc = "page"
  /\ in_page >= 1
  /\ IF IsNone(next_cursor)
       THEN NextTerm
     ELSE IF pages + 1 < max_pages_per_term
       THEN /\ cursor' = next_cursor[1]
            /\ pages' = pages + 1
            /\ in_page' = 0
            /\ pc' = "request"
            /\ UNCHANGED term
     ELSE NextTerm
  /\ UNCHANGED << paperVars, exclusion_stats, response, all_results,
                  excluded, results, prisma, files, callVars >>

\* self.results = list(all_results.values()); return self.results
SearchReturn ==
  /\ pc = "collect"
  /\ results' = Values(all_results)
  /\ pc' = "summary"
  /\ UNCHANGED << paperVars, exclusion_stats, term, pages, cursor, in_page,
                  response, all_results, excluded, prisma, files, callVars >>

\* ------------------------------------------------------------------------
\* RestrictedPaperSearcher.generate_prisma_stats and the exporters
\* ------------------------------------------------------------------------
TaskNames == { "geometry", "strength", "deterioration", "defects", "moisture" }

\* mutant: a task is counted only when it is the whole reason
TaskCount_WholeReason(papers, name) ==
  Cardinality({ i \in 1..Len(papers) :
                  Lower(papers[i].assessment_tasks) = "tasks: " \o name })

\* tasks = paper.get("assessment_tasks", "").lower();
\* if "<name>" in tasks: task_counts["<name>"] += 1
TaskCount(papers, name) ==
  Cardinality({ i \in 1..Len(papers) :
                  Contains(Lower(papers[i].assessment_tasks), name) })

\* stats["by_year"][year] = stats["by_year"].get(year, 0) + 1
ByYear(papers) ==
  [ y \in { papers[i].year : i \in 1..Len(papers) } |->
      Cardinality({ i \in 1..Len(papers) : papers[i].year = y }) ]

\* by_journal and by_material are left out: no modelled field feeds them
generate_prisma_stats(papers, excl) ==
  [ target_records          |-> 612,
    records_identified      |-> Len(papers) + Len(excl),
    records_after_filtering |-> Len(papers),
    excluded_count          |-> Len(excl),
    by_assessment_task      |-> [ t \in TaskNames |-> TaskCount(papers, t) ],
    by_year                 |-> ByYear(papers),
    open_access             |->
      Cardinality({ i \in 1..Len(papers) : papers[i].open_access }) ]

\* searcher.print_summary(): stats = self.generate_prisma_stats(), printed
print_summary ==
  /\ pc = "summary"
  /\ prisma' = Some(generate_prisma_stats(results, excluded))
  /\ pc' = "csv"
  /\ UNCHANGED << paperVars, exclusion_stats, term, pages, cursor, in_page,
                  response, all_results, excluded, results, files, callVars >>

\* mutant: the sort looks at the year only
SortsBefore_YearOnly(a, b) == a.year > b.year

\* df.sort_values(by=["year", "cited_by_count"], ascending=[False, False]):
\* row a goes before row b
SortsBefore(a, b) ==
  \/ a.year > b.year
  \/ a.year = b.year /\ a.cited_by_count > b.cited_by_count

\* the sort keeps rows with equal keys in their order (pandas sorts several
\* columns with a stable lexsort)
InsertRow(sorted, x) ==
  LET k == Cardinality({ i \in 1..Len(sorted) : ~SortsBefore(x, sorted[i]) })
  IN SubSeq(sorted, 1, k) \o << x >> \o SubSeq(sorted, k + 1, Len(sorted))

RECURSIVE SortValues(_)
SortValues(rows) ==
  IF Len(rows) = 0 THEN << >>
  ELSE InsertRow(SortValues(SubSeq(rows, 1, Len(rows) - 1)), rows[Len(rows)])

\* searcher.export_to_csv(...): nothing is written when self.results is empty
export_to_csv ==
  /\ pc = "csv"
  /\ files' = IF Len(results) = 0 THEN files
              ELSE ("ndt_restricted_612_results.csv" :> SortValues(results))
                     @@ files
  /\ pc' = "bibtex"
  /\ UNCHANGED << paperVars, exclusion_stats, term, pages, cursor, in_page,
                  response, all_results, excluded, results, prisma, callVars >>

\* one @article entry per paper, in the order of self.results; the cite key
\* is left out
BibEntries(papers) ==
  [ i \in 1..Len(papers) |->
      [ index |-> i - 1, title |-> papers[i].title[1],
        author |-> papers[i].authors, year |-> papers[i].year ] ]

\* searcher.export_to_bibtex(...): paper['title'].replace(...) on a None
\* title raises AttributeError before the file is opened
export_to_bibtex ==
  /\ pc = "bibtex"
  /\ IF Len(results) = 0
       THEN pc' = "json" /\ UNCHANGED files
     ELSE IF \E i \in 1..Len(results) : IsNone(results[i].title)
       THEN pc' = "raised" /\ UNCHANGED files
     ELSE /\ files' = ("ndt_restricted_612_references.bib" :> BibEntries(results))
                        @@ files
          /\ pc' = "json"
  /\ UNCHANGED << paperVars, exclusion_stats, term, pages, cursor, in_page,
                  response, all_results, excluded, results, prisma, callVars >>

\* stats = searcher.generate_prisma_stats(); json.dump(stats, f, indent=2)
WriteJson ==
  /\ pc = "json"
  /\ prisma' = Some(generate_prisma_stats(results, excluded))
  /\ files' = ("prisma_restricted_612.json"
                 :> generate_prisma_stats(results, excluded)) @@ files
  /\ pc' = "done"
  /\ UNCHANGED << paperVars, exclusion_stats, term, pages, cursor, in_page,
                  response, all_results, excluded, results, callVars >>

Next ==
  \/ RequestError
  \/ RequestEmpty
  \/ RequestPage
  \/ \E r \in SearchCorpus : ProcessRecord(r)
  \/ \E next_cursor \in { None } \cup { Some(c) : c \in Cursors } :
       EndPage(next_cursor)
  \/ SearchReturn
  \/ print_summary
  \/ export_to_csv
  \/ export_to_bibtex
  \/ WriteJson

Spec == Init /\ [][Next]_vars

\* ------------------------------------------------------------------------
\* A searcher that is used again: search() is called on the same instance
\* after it returned.  __init__ is not run again, so only what search()
\* itself sets up is fresh.
\* ------------------------------------------------------------------------
MaxCalls == 2

\* the records the API returns to a searcher that is used again
ReuseCorpus == { RecA, RecC }

\* search() is entered again: all_results = {} and, for the first term,
\* params["cursor"] = "*" and pages = 0; self.results, self.excluded and
\* self.exclusion_stats are what the call before left
SearchAgain ==
  /\ pc = "summary"
  /\ calls < MaxCalls
  /\ calls' = calls + 1
  /\ run_excluded' = << >>
  /\ all_results' = << >>
  /\ term' = 1 /\ pages' = 0 /\ cursor' = "*" /\ in_page' = 0
  /\ response' = "none"
  /\ raw' = None /\ parsed' = None /\ verdict' = None
  /\ pc' = "request"
  /\ UNCHANGED << exclusion_stats, excluded, results, prisma, files >>

NextReuse ==
  \/ RequestError
  \/ RequestEmpty
  \/ RequestPage
  \/ \E r \in ReuseCorpus : ProcessRecord(r)
  \/ \E next_cursor \in { None } \cup { Some(c) : c \in Cursors } :
       EndPage(next_cursor)
  \/ SearchReturn
  \/ print_summary
  \/ SearchAgain

SpecReuse == Init /\ [][NextReuse]_vars

\* ------------------------------------------------------------------------
\* Properties of the classifier and the parser (under SpecPaper)
\* ------------------------------------------------------------------------
\* a keyword of the list, as written in the source, is a substring of text
Has(keywords, text) ==
  \E i \in 1..Len(keywords) : Contains(text, keywords[i])

\* the text is_relevant classified: lower-cased title + " " + abstract
ClassifiedText == PaperText(parsed[1])

AnyTaskSet(text) ==
  \/ Has(TASK_GEOMETRY, text) \/ Has(TASK_STRENGTH, text)
  \/ Has(TASK_DETERIORATION, text) \/ Has(TASK_DEFECTS, text)
  \/ Has(TASK_MOISTURE, text)

\* C1: a paper is included if and only if its text holds no exclusion term,
\* an NDT-method keyword, a structural-material keyword, and a keyword of
\* one of the five task sets or a circular-economy keyword.
C1_IncludedIffAllGates ==
  pc = "checked" =>
    ( verdict[1].included <=>
        /\ ~Has(EXCLUSION_STRICT, ClassifiedText)
        /\ Has(NDT_METHODS_CORE, ClassifiedText)
        /\ Has(STRUCTURAL_MATERIALS, ClassifiedText)
        /\ (AnyTaskSet(ClassifiedText) \/ Has(CIRCULAR_STRICT, ClassifiedText)) )

\* a paper accepted through the moisture set alone, no circular keyword
C1_Witness ==
  /\ pc = "checked"
  /\ verdict[1].included
  /\ Has(TASK_MOISTURE, ClassifiedText)
  /\ ~Has(TASK_GEOMETRY, ClassifiedText) /\ ~Has(TASK_STRENGTH, ClassifiedText)
  /\ ~Has(TASK_DETERIORATION, ClassifiedText)
  /\ ~Has(TASK_DEFECTS, ClassifiedText)
  /\ ~Has(CIRCULAR_STRICT, ClassifiedText)

\* the exclusion keyword that comes first in EXCLUSION_STRICT among those
\* the text contains
FirstListed(text) ==
  EXCLUSION_STRICT[
    CHOOSE i \in 1..Len(EXCLUSION_STRICT) :
      /\ Contains(text, EXCLUSION_STRICT[i])
      /\ \A j \in 1..(i - 1) : ~Contains(text, EXCLUSION_STRICT[j]) ]

\* C2: a text that contains an exclusion keyword is rejected with reason
\* "Excluded: <term>", <term> the first such keyword in list order, whatever
\* else it contains; that term's counter goes up by exactly 1 and no other
\* counter changes.
C2_ExclusionWins ==
  [][ (pc = "classify" /\ Has(EXCLUSION_STRICT, ClassifiedText)) =>
        LET first == FirstListed(ClassifiedText)
        IN /\ verdict' = Some([ included |-> FALSE,
                                reason |-> "Excluded: " \o first ])
           /\ GetCount(exclusion_stats', first)
                = GetCount(exclusion_stats, first) + 1
           /\ \A t \in (DOMAIN exclusion_stats \cup DOMAIN exclusion_stats')
                         \ { first } :
                GetCount(exclusion_stats', t) = GetCount(exclusion_stats, t)
    ]_vars

\* a text with two exclusion terms, an NDT method, a material and a task:
\* excluded under the term listed first, whose counter went from 2 to 3
C2_Witness ==
  /\ pc = "checked"
  /\ verdict[1].reason = "Excluded: pavement"
  /\ Contains(ClassifiedText, "asphalt")
  /\ Has(NDT_METHODS_CORE, ClassifiedText)
  /\ Has(STRUCTURAL_MATERIALS, ClassifiedText)
  /\ AnyTaskSet(ClassifiedText)
  /\ exclusion_stats["pavement"] = 3
  /\ exclusion_stats["aircraft"] = 1

\* C3 as stated: every text without an NDT-method keyword is rejected with
\* reason exactly "No core NDT method".
C3_Original ==
  (pc = "checked" /\ ~Has(NDT_METHODS_CORE, ClassifiedText)) =>
    verdict[1] = [ included |-> FALSE, reason |-> "No core NDT method" ]

\* C3 (amended): every text that contains no exclusion keyword and no
\* NDT-method keyword is rejected with reason exactly "No core NDT method",
\* even if material and task keywords are present.
C3_NoNdtMethod ==
  (/\ pc = "checked"
   /\ ~Has(EXCLUSION_STRICT, ClassifiedText)
   /\ ~Has(NDT_METHODS_CORE, ClassifiedText)) =>
    verdict[1] = [ included |-> FALSE, reason |-> "No core NDT method" ]

C3_Witness ==
  /\ pc = "checked"
  /\ ~Has(NDT_METHODS_CORE, ClassifiedText)
  /\ Has(STRUCTURAL_MATERIALS, ClassifiedText)
  /\ AnyTaskSet(ClassifiedText)
  /\ verdict[1].reason = "No core NDT method"

\* C4: for an accepted paper each task name is in the reason if and only if
\* a keyword of that task set is in the text, and the reason is
\* "Tasks: circular" if and only if no task set matches.
C4_TaskLabels ==
  (pc = "checked" /\ verdict[1].included) =>
    LET reason == verdict[1].reason
    IN /\ Contains(reason, "geometry") <=> Has(TASK_GEOMETRY, ClassifiedText)
       /\ Contains(reason, "strength") <=> Has(TASK_STRENGTH, ClassifiedText)
       /\ Contains(reason, "deterioration")
            <=> Has(TASK_DETERIORATION, ClassifiedText)
       /\ Contains(reason, "defects") <=> Has(TASK_DEFECTS, ClassifiedText)
       /\ Contains(reason, "moisture") <=> Has(TASK_MOISTURE, ClassifiedText)
       /\ (reason = "Tasks: circular") <=> ~AnyTaskSet(ClassifiedText)

C4_Witness ==
  /\ pc = "checked"
  /\ verdict[1].included
  /\ verdict[1].reason = "Tasks: geometry, strength"
  /\ Has(TASK_GEOMETRY, ClassifiedText)
  /\ Has(TASK_STRENGTH, ClassifiedText)

\* the inverted index of the record that was parsed, and its positions
ParsedIndex == raw[1].abstract_inverted_index[1]

ListedAt(p) ==
  { e \in 1..Len(ParsedIndex) :
      \E k \in 1..Len(ParsedIndex[e].indices) : ParsedIndex[e].indices[k] = p }

ListedPositions ==
  UNION { { ParsedIndex[e].indices[k] : k \in 1..Len(ParsedIndex[e].indices) } :
          e \in 1..Len(ParsedIndex) }

MaxPosition == CHOOSE m \in ListedPositions : \A q \in ListedPositions : q <= m

\* a parsed record with a non-empty index that lists a position, and whose
\* other fields do not make the parser fail
HasIndex ==
  /\ pc # "parse"
  /\ ~AuthorsRaise(raw[1].authorships)
  /\ ~IsNone(raw[1].open_access)
  /\ ~IsNone(raw[1].abstract_inverted_index)
  /\ Len(ParsedIndex) > 0
  /\ ListedPositions # {}

\* C8 as stated: for every non-empty inverted index the rebuilt abstract is
\* the space-joined sequence of length max_position+1 in which each listed
\* position holds its word and every unlisted position is empty.
C8_Original ==
  HasIndex =>
    /\ ~IsNone(parsed)
    /\ \A p \in ListedPositions : \A e \in ListedAt(p) : \A f \in ListedAt(p) :
         ParsedIndex[e].word = ParsedIndex[f].word
    /\ parsed[1].abstract =
         Join([ q \in 1..(MaxPosition + 1) |->
                  IF ListedAt(q - 1) = {} THEN ""
                  ELSE ParsedIndex[CHOOSE e \in ListedAt(q - 1) : TRUE].word ],
              " ")

\* C8 (amended): for every non-empty inverted index in which every word
\* lists at least one position, the rebuilt abstract is the space-joined
\* sequence of length max_position+1 in which each listed position holds
\* the word of the last index entry that lists it and every unlisted
\* position is empty.
C8_AbstractRebuilt ==
  (HasIndex /\ \A e \in 1..Len(ParsedIndex) : Len(ParsedIndex[e].indices) > 0)
    =>
    /\ ~IsNone(parsed)
    /\ parsed[1].abstract =
         Join([ q \in 1..(MaxPosition + 1) |->
                  IF ListedAt(q - 1) = {} THEN ""
                  ELSE ParsedIndex[CHOOSE e \in ListedAt(q - 1) :
                                     \A f \in ListedAt(q - 1) : f <= e].word ],
              " ")

\* the example {"ultrasonic": [0,3], "testing": [1]}, position 2 empty
C8_Witness ==
  /\ pc # "parse"
  /\ raw[1].abstract_inverted_index =
       Some(<< Entry("ultrasonic", << 0, 3 >>), Entry("testing", << 1 >>) >>)
  /\ ~IsNone(parsed)
  /\ parsed[1].abstract = "ultrasonic testing  ultrasonic"

\* ------------------------------------------------------------------------
\* Properties of the search, the aggregator and the exporters (under Spec)
\* ------------------------------------------------------------------------
IsPrefixOf(a, b) ==
  /\ Len(a) <= Len(b)
  /\ \A i \in 1..Len(a) : b[i] = a[i]

\* C5: a source identifier is in the accepted set at most once, during the
\* search and in the returned list, and an entry once stored (with its
\* assessment_tasks reason) is never overwritten by a later occurrence.
C5_OneEntryPerId ==
  /\ [](/\ \A i \in 1..Len(all_results) : \A j \in 1..Len(all_results) :
             all_results[i].key = all_results[j].key => i = j
        /\ \A i \in 1..Len(all_results) :
             all_results[i].value.openalex_id = all_results[i].key
        /\ \A i \in 1..Len(results) : \A j \in 1..Len(results) :
             results[i].openalex_id = results[j].openalex_id => i = j
        /\ pc \in { "summary", "csv", "bibtex", "json", "done" }
             => results = Values(all_results))
  /\ [][IsPrefixOf(all_results, all_results')]_vars

\* W1 was accepted in its first version; its second version came back under
\* the second query term and was skipped
C5_Witness ==
  /\ term = 2
  /\ raw = Some(RecA2)
  /\ IsNone(parsed)
  /\ \E i \in 1..Len(all_results) :
       /\ all_results[i].key = "W1"
       /\ all_results[i].value.assessment_tasks = "Tasks: geometry, strength"

\* C6: whatever the API answers, no exception escapes: search() returns and
\* main() goes on to the summary and the three exports.
C6_NoFailureIsFatal == pc # "raised"

\* C7: a network error on a page request ends the pagination of the current
\* term only: the term is left for good, the next term (if any) is searched
\* from cursor "*", and the accumulators are unchanged.
C7_ErrorEndsTermOnly ==
  /\ [][ (pc = "request" /\ response' = "error") =>
           /\ term' = term + 1
           /\ pc' = (IF term < NumTerms THEN "request" ELSE "collect")
           /\ cursor' = "*" /\ pages' = 0
           /\ UNCHANGED << all_results, excluded, exclusion_stats >> ]_vars
  /\ [][term' >= term]_vars
  /\ []((pc = "request" /\ pages = 0) => cursor = "*")

\* the first term's second page failed after its first page had stored one
\* paper and logged another; the second term is about to be searched
C7_Witness ==
  /\ response = "error"
  /\ pc = "request" /\ term = 2 /\ pages = 0 /\ cursor = "*"
  /\ Len(all_results) = 1
  /\ Len(excluded) = 1
  /\ exclusion_stats = [ t \in { "aircraft" } |-> 1 ]

\* the task sets matched by the text of each paper of the search corpus
TaskKeywords(t) ==
  CASE t = "geometry" -> TASK_GEOMETRY
    [] t = "strength" -> TASK_STRENGTH
    [] t = "deterioration" -> TASK_DETERIORATION
    [] t = "defects" -> TASK_DEFECTS
    [] t = "moisture" -> TASK_MOISTURE

CorpusTaskSets ==
  [ paper \in DOMAIN KnownDecisions |->
      { t \in TaskNames : Has(TaskKeywords(t), PaperText(paper)) } ]

\* the parsed paper behind a stored result
WithoutTasks(stored) ==
  [ f \in DOMAIN stored \ { "assessment_tasks" } |-> stored[f] ]

\* C9: by_assessment_task[t] is the number of accepted papers whose text
\* matches a keyword of task set t; a paper matching several sets counts in
\* each, a paper accepted as "circular" in none.
C9_TaskCounts ==
  ~IsNone(prisma) =>
    \A t \in TaskNames :
      prisma[1].by_assessment_task[t] =
        Cardinality({ i \in 1..Len(results) :
                        t \in CorpusTaskSets[WithoutTasks(results[i])] })

\* three accepted papers: one circular, one with two tasks, one with one
C9_Witness ==
  /\ ~IsNone(prisma)
  /\ Len(results) = 3
  /\ \E i \in 1..3 : results[i].assessment_tasks = "Tasks: circular"
  /\ \E i \in 1..3 : results[i].assessment_tasks = "Tasks: deterioration, defects"
  /\ prisma[1].by_assessment_task =
       [ t \in TaskNames |->
           IF t \in { "deterioration", "defects", "moisture" } THEN 1 ELSE 0 ]

CsvName == "ndt_restricted_612_results.csv"

\* C10: the CSV holds exactly one row per accepted paper, ordered by year
\* descending and, within a year, by citation count descending.
C10_CsvSorted ==
  /\ (pc \in { "bibtex", "json", "done" } /\ Len(results) > 0)
       => CsvName \in DOMAIN files
  /\ CsvName \in DOMAIN files =>
       LET rows == files[CsvName]
       IN /\ Len(rows) = Len(results)
          /\ \A i \in 1..Len(results) :
               Cardinality({ k \in 1..Len(rows) : rows[k] = results[i] }) = 1
          /\ \A i \in 1..Len(rows) : \A j \in 1..Len(rows) :
               i < j =>
                 \/ rows[i].year > rows[j].year
                 \/ /\ rows[i].year = rows[j].year
                    /\ rows[i].cited_by_count >= rows[j].cited_by_count

\* W1 (2020, 3 citations) was accepted before W2 (2020, 7) and W6 (2022, 1);
\* the CSV lists W6, W2, W1
C10_Witness ==
  /\ CsvName \in DOMAIN files
  /\ Len(results) = 3
  /\ results[1].openalex_id = "W1" /\ results[2].openalex_id = "W2"
  /\ Len(files[CsvName]) = 3
  /\ files[CsvName][1].openalex_id = "W6"
  /\ files[CsvName][2].openalex_id = "W2"
  /\ files[CsvName][3].openalex_id = "W1"

\* the entry search() appends to self.excluded when it rejects record r
EntryOf(r) ==
  [ title  |-> Prefix(r.title[1], 60),
    reason |-> DecisionFor(parse_paper(r)[1]).reason ]

\* C11: a record whose identifier was seen on an earlier page or under an
\* earlier term is skipped: it is not classified again, adds no entry to
\* the exclusion log and increments no exclusion-term counter, so a record
\* rejected once is logged at most once.  Stated for the first record of a
\* page, whose earlier log entries can only stem from earlier pages or
\* terms (in the corpus no two records share an exclusion term).
C11_SeenRecordSkipped ==
  \A r \in SearchCorpus :
    (/\ pc = "page" /\ in_page = 1 /\ raw = Some(r)
     /\ ~ParseRaises(r) /\ ~IsNone(r.title))
      =>
      LET d == DecisionFor(parse_paper(r)[1])
          earlier == IF ~IsNone(verdict) /\ ~verdict[1].included
                     THEN SubSeq(excluded, 1, Len(excluded) - 1)
                     ELSE excluded
      IN /\ (\E i \in 1..Len(earlier) : earlier[i] = EntryOf(r))
              => IsNone(verdict)
         /\ Cardinality({ i \in 1..Len(excluded) :
                            excluded[i] = EntryOf(r) }) <= 1
         /\ ~IsNone(d.exclude) => GetCount(exclusion_stats, d.exclude[1]) <= 1

\* search() is inside the loops over the terms and over the pages
Searching == pc \in { "request", "page" }

\* a step that sends a request: the only steps taken at pc = "request"
RequestStep == pc = "request" /\ vars' # vars

\* a step after which the same term asks for a further page
FollowUpStep == pc' = "request" /\ term' = term /\ vars' # vars

\* what is left of the search: terms to come, pages the current term may
\* still fetch, records the current page may still hold
SearchMeasure ==
  IF Searching
  THEN ((NumTerms - term) * max_pages_per_term
          + (max_pages_per_term - 1 - pages)) * (MaxPageLen + 3)
       + (IF pc = "request" THEN MaxPageLen + 2 ELSE MaxPageLen + 1 - in_page)
  ELSE 0

\* C12: within one term a further page is requested only after a response
\* with a non-empty results list that returned a cursor, and only while
\* fewer than max_pages_per_term pages were fetched; the follow-up request
\* carries exactly the cursor that response returned; the k-th request of
\* a term is sent with pages = k - 1 < max_pages_per_term, so a term sends
\* at most max_pages_per_term requests; and every step of search() lowers
\* a natural-number measure, so search() ends whatever the API answers.
C12_Pagination ==
  /\ [][FollowUpStep =>
          /\ pc = "page" /\ response = "page" /\ in_page >= 1
          /\ pages' = pages + 1 /\ pages' < max_pages_per_term
          /\ \E c \in Cursors : EndPage(Some(c)) /\ cursor' = c]_vars
  /\ [][\A nc \in { None } \cup { Some(c) : c \in Cursors } :
          (EndPage(nc) /\ FollowUpStep) => ~IsNone(nc) /\ cursor' = nc[1]]_vars
  /\ [][RequestStep =>
          /\ pages < max_pages_per_term
          /\ (pages = 0 <=> cursor = "*")]_vars
  /\ [][term' # term => pages' = 0]_vars
  /\ [][(term' = term /\ pages' # pages) => FollowUpStep]_vars
  /\ [](Searching => term \in 1..NumTerms /\ pages \in 0..(max_pages_per_term - 1))
  /\ [](SearchMeasure \in Nat)
  /\ [][Searching => SearchMeasure' < SearchMeasure]_vars

\* the last page the cap allows is being read, reached through follow-up
\* requests that carried a returned cursor
C12_Witness ==
  /\ pc = "page" /\ in_page >= 1
  /\ term = NumTerms
  /\ pages = max_pages_per_term - 1
  /\ cursor \in Cursors

\* a step of the for loop over the page that handles record r
Handles(r) == pc = "page" /\ in_page' = in_page + 1 /\ raw' = Some(r)

\* C13: when _parse_paper fails on the structure of a raw record it
\* returns None, and the step of search() that handles the record leaves
\* the accepted set, the exclusion log and the exclusion counters as they
\* were, does not classify the record, and stays in the for loop of the
\* same page of the same term.
C13_BrokenRecordDropped ==
  [][\A r \in SearchCorpus :
       (Handles(r) /\ ParseRaises(r)) =>
         /\ parsed' = None /\ verdict' = None
         /\ all_results' = all_results
         /\ excluded' = excluded
         /\ exclusion_stats' = exclusion_stats
         /\ results' = results
         /\ pc' = "page" /\ term' = term /\ pages' = pages]_vars

\* the record with the empty position list was just dropped while both
\* accumulators hold earlier records and the page has room for more
C13_Witness ==
  /\ pc = "page" /\ raw = Some(RecG) /\ IsNone(parsed)
  /\ in_page = 1 /\ in_page < MaxPageLen
  /\ RecG.id \notin Keys(all_results)
  /\ Len(all_results) >= 1 /\ Len(excluded) >= 1

\* the number of entries of a log that name the exclusion term t
LoggedFor(log, t) ==
  Cardinality({ i \in 1..Len(log) : log[i].reason = "Excluded: " \o t })

\* C14: whenever a call of search() has returned, also a second call on
\* the same instance, self.results, self.excluded and
\* self.exclusion_stats hold what this call accepted, logged and counted
\* and nothing else, and the summary computed from them has
\* records_identified = records_after_filtering + excluded_count with
\* both terms counting this call's records only.
C14_RunsAreFresh ==
  pc \in { "summary", "csv" } =>
    /\ results = Values(all_results)
    /\ excluded = run_excluded
    /\ \A t \in DOMAIN exclusion_stats :
         exclusion_stats[t] = LoggedFor(run_excluded, t)
    /\ pc = "csv" =>
         /\ prisma[1].records_identified =
              prisma[1].records_after_filtering + prisma[1].excluded_count
         /\ prisma[1].records_after_filtering = Len(all_results)
         /\ prisma[1].excluded_count = Len(run_excluded)

====
